---- MODULE Spec2Model ----
(***************************************************************************)
(* A model of the three puzzle solvers of matt-parkers-maths-puzzles:      *)
(*   - scrabble       (src/src/scrabble.rs): the two-level backtracking    *)
(*                     search draw_abstract / draw_concrete with its two   *)
(*                     accumulators, SolutionCount and SolutionList;       *)
(*   - card           (src/src/card.rs);                                   *)
(*   - spinning_table (src/src/spinning_table.rs).                         *)
(* Recursion is modelled by an explicit call stack; every loop iteration,  *)
(* call and return of the search is one step.                              *)
(***************************************************************************)
EXTENDS Integers, Sequences, FiniteSets, TLC

VARIABLES
    \* ---- scrabble ----
    hand_size,                      \* parameters.hand_size
    target_score,                   \* parameters.target_score
    output,                         \* parameters.output: "Count" or "List"
    number_of_abstract_tiles_drawn, \* per weight class (Cell<u32>)
    occurrences_drawn,              \* per catalog tile (Cell<u32>)
    stack,                          \* call stack of draw_abstract / draw_concrete
    solution_accumulator,           \* the accumulator of scrabble1
    concrete_tile_combinations,     \* the accumulator draw_concrete fills
    combinations_by_tile_value,     \* concrete_tile_combinations_by_tile_value
    scrabble_pc,                    \* "start", "search" or "done"
    scrabble_result,                \* what scrabble returned
    run,                            \* 1 for the first call, 2 for the second
    first_output,                   \* parameters.output of the first call
    first_result,                   \* what the first call returned
    base_cases,                     \* history: the weight-class counters at each
                                    \* arrival of draw_abstract at a full hand
    letters_added,                  \* history: the per-letter counters at each
                                    \* add_solution of the running enumeration
    \* ---- card ----
    number_of_cards,                \* the u8 given to NumberOfCards::try_from
    number_of_card_states,          \* NumberOfCards.number_of_card_states
    solution,                       \* the boxed slice card fills
    solution_len,
    m,                              \* the loop variable of card
    card_pc,                        \* "parse", "rejected", "call", "loop",
                                    \* "returned", "panicked", "check", "checked"
    card_state,                     \* check_state: the cards still face up
    solution_iter,                  \* check_state: the flips taken so far
    check_result,                   \* what check_state returned
    \* ---- spinning_table ----
    number_of_seats,
    include_redundant_solutions,
    seats_after_first,              \* the vector heap_recursive permutes
    seats,
    solutions,
    heap_c,                         \* heap_recursive: the loop counters
    table_pc                        \* "call", "visit", "advance", "returned"

scrabbleVars == << hand_size, target_score, output,
                   number_of_abstract_tiles_drawn, occurrences_drawn, stack,
                   solution_accumulator, concrete_tile_combinations,
                   combinations_by_tile_value, scrabble_pc, scrabble_result,
                   run, first_output, first_result, base_cases,
                   letters_added >>

cardVars == << number_of_cards, number_of_card_states, solution, solution_len,
               m, card_pc, card_state, solution_iter, check_result >>

tableVars == << number_of_seats, include_redundant_solutions, seats_after_first,
                seats, solutions, heap_c, table_pc >>

vars == << scrabbleVars, cardVars, tableVars >>

(***************************************************************************)
(* Bounds of the model.                                                    *)
(***************************************************************************)
MaxHand == 2
MaxScore == 22
MaxCards == 4
MaxSeats == 7

(***************************************************************************)
(* scrabble.rs: the tile catalog.  A letter is its code point (' ' = 32,   *)
(* 'A' = 65, ..., 'Z' = 90), so that the byte order String::cmp uses is    *)
(* the order of the integers.                                              *)
(***************************************************************************)
Tile(l, o, v) == [letter |-> l, occurrences |-> o, value |-> v]

STANDARD_ENGLISH_SCRABBLE_TILES ==
    << Tile(32,  2, 0), Tile(65,  9, 1), Tile(66,  2, 3), Tile(67,  2, 3),
      Tile(68,  4, 2), Tile(69, 12, 1), Tile(70,  2, 4), Tile(71,  3, 2),
      Tile(72,  2, 4), Tile(73,  9, 1), Tile(74,  1, 8), Tile(75,  1, 5),
      Tile(76,  4, 1), Tile(77,  2, 3), Tile(78,  6, 1), Tile(79,  8, 1),
      Tile(80,  2, 3), Tile(81,  1, 10),Tile(82,  6, 1), Tile(83,  4, 1),
      Tile(84,  6, 1), Tile(85,  4, 1), Tile(86,  2, 4), Tile(87,  2, 4),
      Tile(88,  1, 8), Tile(89,  2, 4), Tile(90,  1, 10) >>

NumTiles == Len(STANDARD_ENGLISH_SCRABBLE_TILES)

RECURSIVE SumSeq(_)
SumSeq(s) == IF s = << >> THEN 0 ELSE Head(s) + SumSeq(Tail(s))

\* The keys of the BTreeMap, in the ascending order its iteration uses.
RECURSIVE SortedKeys(_)
SortedKeys(S) ==
    IF S = {} THEN << >>
    ELSE LET least == CHOOSE x \in S : \A y \in S : x <= y
         IN  << least >> \o SortedKeys(S \ {least})

\* The indexes (in catalog order) of the tiles whose value is v.
RECURSIVE TilesWithValue(_, _)
TilesWithValue(v, i) ==
    IF i > NumTiles THEN << >>
    ELSE (IF STANDARD_ENGLISH_SCRABBLE_TILES[i].value = v THEN << i >> ELSE << >>)
         \o TilesWithValue(v, i + 1)

\* scrabble1's fold: one TilesForValue per distinct value, ascending by value;
\* live_counted_tiles holds the class's tiles in catalog order and
\* number_of_tiles is the sum of their occurrences.
tiles_by_value ==
    LET keys == SortedKeys({ STANDARD_ENGLISH_SCRABBLE_TILES[i].value : i \in 1..NumTiles })
    IN  [ k \in 1..Len(keys) |->
            LET live == TilesWithValue(keys[k], 1)
            IN  [ value |-> keys[k],
                  live_counted_tiles |-> live,
                  number_of_tiles |->
                      SumSeq([ j \in 1..Len(live) |->
                                 STANDARD_ENGLISH_SCRABBLE_TILES[live[j]].occurrences ]) ] ]

NumClasses == Len(tiles_by_value)

(***************************************************************************)
(* scrabble.rs: the two accumulators.  S is "Count" (SolutionCount = u64)  *)
(* or "List" (SolutionList = Vec<String>); a String is the sequence of its *)
(* code points.                                                            *)
(***************************************************************************)
RECURSIVE Flatten(_)
Flatten(ss) == IF ss = << >> THEN << >> ELSE Head(ss) \o Flatten(Tail(ss))

\* Iterator::product over the counts (1 for no counts).
RECURSIVE ProductSeq(_)
ProductSeq(s) == IF s = << >> THEN 1 ELSE Head(s) * ProductSeq(Tail(s))

\* The tuples of itertools' MultiProduct over one or more lists, the last list
\* varying fastest, each tuple joined (v.join("")).
RECURSIVE JoinedTuples(_)
JoinedTuples(ls) ==
    IF ls = << >> THEN << << >> >>
    ELSE LET rest == JoinedTuples(Tail(ls))
         IN  Flatten([ i \in 1..Len(Head(ls)) |->
                         [ j \in 1..Len(rest) |-> Head(ls)[i] \o rest[j] ] ])

\* Itertools::multi_cartesian_product followed by join and collect.  The
\* itertools releases of this crate's time (before 0.13) yield nothing for an
\* empty list of iterators: MultiProduct::iterate_last answers false when
\* it starts on no iterators at all.
multi_cartesian_product(ls) ==
    IF ls = << >> THEN << >> ELSE JoinedTuples(ls)

\* String's Ord: lexicographic on the bytes.
StrLess(a, b) ==
    \E k \in 1..(Len(a) + 1) :
        /\ \A i \in 1..(k - 1) : i <= Len(b) /\ a[i] = b[i]
        /\ \/ k = Len(a) + 1 /\ Len(b) >= k
           \/ k <= Len(a) /\ k <= Len(b) /\ a[k] < b[k]

\* slice::sort on strings: the entries in ascending order of String's Ord,
\* each as often as it occurs.  Computed by first byte: the empty strings,
\* then, for each first byte in ascending order, the strings that start with
\* it, ordered by their remainders.
RECURSIVE SortStrings(_)
SortStrings(v) ==
    IF Len(v) <= 1 THEN v
    ELSE LET empties == SelectSeq(v, LAMBDA s : s = << >>)
             others  == SelectSeq(v, LAMBDA s : s # << >>)
             firsts  == SortedKeys({ others[i][1] : i \in 1..Len(others) })
             bucket(c) ==
                 LET sel   == SelectSeq(others, LAMBDA s : s[1] = c)
                     tails == SortStrings([ i \in 1..Len(sel) |-> Tail(sel[i]) ])
                 IN  [ i \in 1..Len(tails) |-> << c >> \o tails[i] ]
         IN  empties \o Flatten([ k \in 1..Len(firsts) |-> bucket(firsts[k]) ])

new(S) == IF S = "Count" THEN 0 ELSE << >>

add_solution(S, self, solution_string) ==
    IF S = "Count" THEN self + 1 ELSE Append(self, solution_string)

add_solutions(S, self, other) ==
    IF S = "Count" THEN self + other ELSE self \o other

\* A slip: the counts of the classes added up instead of multiplied.
cartesian_product_sum(S, solutions_by_value) ==
    IF S = "Count" THEN SumSeq(solutions_by_value)
    ELSE multi_cartesian_product(solutions_by_value)

\* A slip: no class at all gives no solution, in count mode too.
cartesian_product_none(S, solutions_by_value) ==
    IF solutions_by_value = << >> THEN new(S)
    ELSE IF S = "Count" THEN ProductSeq(solutions_by_value)
    ELSE multi_cartesian_product(solutions_by_value)

cartesian_product(S, solutions_by_value) ==
    IF S = "Count" THEN ProductSeq(solutions_by_value)
    ELSE multi_cartesian_product(solutions_by_value)

\* A slip: the list is left in the order the search found it.
finish_unsorted(S, self) == self

finish(S, self) ==
    IF S = "Count" THEN self ELSE SortStrings(self)

(***************************************************************************)
(* scrabble.rs: the search.  A frame of the call stack is one activation   *)
(* of draw_abstract or draw_concrete:                                      *)
(*   iter        the position of the peekable iterator the call was given  *)
(*               (a class of tiles_by_value, or a place in the class's     *)
(*               live_counted_tiles; one past the end when exhausted);     *)
(*   iter_clone  the position of its clone (0 before the clone is made);   *)
(*   tfv         draw_concrete: the class tiles_for_value; draw_abstract,  *)
(*               when the hand is full: the class the filter/map iterator  *)
(*               over tiles_by_value.values() stands at;                   *)
(*   entry_abstract, entry_occurrences                                     *)
(*               history: the counters as they were when the call was      *)
(*               entered.                                                  *)
(***************************************************************************)
Frame(f, c, i, n, a, o) ==
    [ fn |-> f, tfv |-> c, iter |-> i, iter_clone |-> 0,
      tiles_drawn_so_far |-> n, pc |-> "entry",
      entry_abstract |-> a, entry_occurrences |-> o ]

\* The two histories are kept for the hand sizes within the bound; a search
\* for a larger hand runs without them.
HistoryKept == hand_size <= MaxHand

Record(history, entry) == IF HistoryKept THEN Append(history, entry) ELSE history

Top == stack[Len(stack)]
Pop == SubSeq(stack, 1, Len(stack) - 1)
SetTop(f) == [ stack EXCEPT ![Len(stack)] = f ]

InAbstract(p) ==
    /\ scrabble_pc = "search" /\ stack # << >>
    /\ Top.fn = "draw_abstract" /\ Top.pc = p

InConcrete(p) ==
    /\ scrabble_pc = "search" /\ stack # << >>
    /\ Top.fn = "draw_concrete" /\ Top.pc = p

\* The score of the abstract hand: the sum of value * tiles drawn.
hand_score ==
    SumSeq([ k \in 1..NumClasses |->
               tiles_by_value[k].value * number_of_abstract_tiles_drawn[k] ])

\* A slip: the accumulator of an earlier call in the same output format is
\* used again instead of a new one.
ScrabbleCallStale ==
    /\ scrabble_pc = "start"
    /\ solution_accumulator' =
           (IF run = 2 /\ first_output = output THEN solution_accumulator
                                                ELSE new(output))
    /\ number_of_abstract_tiles_drawn' = [ k \in 1..NumClasses |-> 0 ]
    /\ occurrences_drawn' = [ i \in 1..NumTiles |-> 0 ]
    /\ stack' = << Frame("draw_abstract", 0, 1, 0,
                         [ k \in 1..NumClasses |-> 0 ], [ i \in 1..NumTiles |-> 0 ]) >>
    /\ scrabble_pc' = "search"
    /\ UNCHANGED << hand_size, target_score, output, concrete_tile_combinations,
                    combinations_by_tile_value, scrabble_result, run, first_output, first_result >>
    /\ base_cases' = << >>
    /\ letters_added' = << >>
    /\ UNCHANGED << cardVars, tableVars >>

\* scrabble1, up to its call of draw_abstract: a new accumulator, a new
\* tiles_by_value with every counter at its default, and the first call.
ScrabbleCall ==
    /\ scrabble_pc = "start"
    /\ solution_accumulator' = new(output)
    /\ number_of_abstract_tiles_drawn' = [ k \in 1..NumClasses |-> 0 ]
    /\ occurrences_drawn' = [ i \in 1..NumTiles |-> 0 ]
    /\ stack' = << Frame("draw_abstract", 0, 1, 0,
                         [ k \in 1..NumClasses |-> 0 ], [ i \in 1..NumTiles |-> 0 ]) >>
    /\ scrabble_pc' = "search"
    /\ UNCHANGED << hand_size, target_score, output, concrete_tile_combinations,
                    combinations_by_tile_value, scrabble_result, run, first_output, first_result >>
    /\ base_cases' = << >>
    /\ letters_added' = << >>
    /\ UNCHANGED << cardVars, tableVars >>

\* A slip: a full hand is expanded whatever its score.
AbstractDiscardUnchecked ==
    /\ InAbstract("entry")
    /\ Top.tiles_drawn_so_far = hand_size
    /\ hand_score # target_score
    /\ stack' = SetTop([ Top EXCEPT !.pc = "expand", !.tfv = 1 ])
    /\ combinations_by_tile_value' = << >>
    /\ UNCHANGED << hand_size, target_score, output, number_of_abstract_tiles_drawn,
                    occurrences_drawn, solution_accumulator,
                    concrete_tile_combinations, scrabble_pc, scrabble_result,
                    run, first_output, first_result >>
    /\ base_cases' = Record(base_cases, number_of_abstract_tiles_drawn)
    /\ UNCHANGED letters_added
    /\ UNCHANGED << cardVars, tableVars >>

\* draw_abstract: the hand is full and its score is not the target score.
AbstractDiscard ==
    /\ InAbstract("entry")
    /\ Top.tiles_drawn_so_far = hand_size
    /\ hand_score # target_score
    /\ stack' = Pop
    /\ UNCHANGED << hand_size, target_score, output, number_of_abstract_tiles_drawn,
                    occurrences_drawn, solution_accumulator,
                    concrete_tile_combinations, combinations_by_tile_value,
                    scrabble_pc, scrabble_result, run, first_output, first_result >>
    /\ base_cases' = Record(base_cases, number_of_abstract_tiles_drawn)
    /\ UNCHANGED letters_added
    /\ UNCHANGED << cardVars, tableVars >>

\* draw_abstract: the hand is full and its score matches; the enumeration of
\* the classes' letter groups starts at the first class.
AbstractMatch ==
    /\ InAbstract("entry")
    /\ Top.tiles_drawn_so_far = hand_size
    /\ hand_score = target_score
    /\ stack' = SetTop([ Top EXCEPT !.pc = "expand", !.tfv = 1 ])
    /\ combinations_by_tile_value' = << >>
    /\ UNCHANGED << hand_size, target_score, output, number_of_abstract_tiles_drawn,
                    occurrences_drawn, solution_accumulator,
                    concrete_tile_combinations, scrabble_pc, scrabble_result,
                    run, first_output, first_result >>
    /\ base_cases' = Record(base_cases, number_of_abstract_tiles_drawn)
    /\ UNCHANGED letters_added
    /\ UNCHANGED << cardVars, tableVars >>

\* The filter of the enumeration passes a class no tile was drawn of.
AbstractFilterOut ==
    /\ InAbstract("expand")
    /\ Top.tfv <= NumClasses
    /\ ~ (number_of_abstract_tiles_drawn[Top.tfv] > 0)
    /\ stack' = SetTop([ Top EXCEPT !.tfv = @ + 1 ])
    /\ UNCHANGED << hand_size, target_score, output, number_of_abstract_tiles_drawn,
                    occurrences_drawn, solution_accumulator,
                    concrete_tile_combinations, combinations_by_tile_value,
                    scrabble_pc, scrabble_result, run, first_output, first_result >>
    /\ UNCHANGED << base_cases, letters_added >>
    /\ UNCHANGED << cardVars, tableVars >>

\* The map of the enumeration: a new accumulator and a call of draw_concrete
\* on a class some tile was drawn of.
AbstractExpand ==
    /\ InAbstract("expand")
    /\ Top.tfv <= NumClasses
    /\ number_of_abstract_tiles_drawn[Top.tfv] > 0
    /\ concrete_tile_combinations' = new(output)
    /\ stack' = Append(SetTop([ Top EXCEPT !.pc = "expanded" ]),
                       Frame("draw_concrete", Top.tfv, 1, 0,
                             number_of_abstract_tiles_drawn, occurrences_drawn))
    /\ UNCHANGED << hand_size, target_score, output, number_of_abstract_tiles_drawn,
                    occurrences_drawn, solution_accumulator,
                    combinations_by_tile_value, scrabble_pc, scrabble_result,
                    run, first_output, first_result >>
    /\ letters_added' = << >>
    /\ UNCHANGED base_cases
    /\ UNCHANGED << cardVars, tableVars >>

\* draw_concrete has returned: its accumulator is collected.
AbstractCollect ==
    /\ InAbstract("expanded")
    /\ combinations_by_tile_value' =
           Append(combinations_by_tile_value, concrete_tile_combinations)
    /\ stack' = SetTop([ Top EXCEPT !.pc = "expand", !.tfv = @ + 1 ])
    /\ UNCHANGED << hand_size, target_score, output, number_of_abstract_tiles_drawn,
                    occurrences_drawn, solution_accumulator,
                    concrete_tile_combinations, scrabble_pc, scrabble_result,
                    run, first_output, first_result >>
    /\ UNCHANGED << base_cases, letters_added >>
    /\ UNCHANGED << cardVars, tableVars >>

\* The enumeration is over: the cartesian product of the collected
\* accumulators is added to the solutions, and draw_abstract returns.
AbstractAddSolutions ==
    /\ InAbstract("expand")
    /\ Top.tfv > NumClasses
    /\ solution_accumulator' =
           add_solutions(output, solution_accumulator,
                         cartesian_product(output, combinations_by_tile_value))
    /\ stack' = Pop
    /\ UNCHANGED << hand_size, target_score, output, number_of_abstract_tiles_drawn,
                    occurrences_drawn, concrete_tile_combinations,
                    combinations_by_tile_value, scrabble_pc, scrabble_result,
                    run, first_output, first_result >>
    /\ UNCHANGED << base_cases, letters_added >>
    /\ UNCHANGED << cardVars, tableVars >>

\* draw_abstract: the hand is not full; the iterator is cloned.
AbstractClone ==
    /\ InAbstract("entry")
    /\ Top.tiles_drawn_so_far # hand_size
    /\ stack' = SetTop([ Top EXCEPT !.pc = "loop", !.iter_clone = Top.iter ])
    /\ UNCHANGED << hand_size, target_score, output, number_of_abstract_tiles_drawn,
                    occurrences_drawn, solution_accumulator,
                    concrete_tile_combinations, combinations_by_tile_value,
                    scrabble_pc, scrabble_result, run, first_output, first_result >>
    /\ UNCHANGED << base_cases, letters_added >>
    /\ UNCHANGED << cardVars, tableVars >>

\* A slip: a tile is drawn whether or not the class has one left.
AbstractDrawUnchecked ==
    /\ InAbstract("loop")
    /\ Top.iter <= NumClasses
    /\ number_of_abstract_tiles_drawn' =
           [ number_of_abstract_tiles_drawn EXCEPT ![Top.iter] = @ + 1 ]
    /\ stack' = Append(SetTop([ Top EXCEPT !.pc = "called" ]),
                       Frame("draw_abstract", 0, Top.iter_clone,
                             Top.tiles_drawn_so_far + 1,
                             number_of_abstract_tiles_drawn', occurrences_drawn))
    /\ UNCHANGED << hand_size, target_score, output, occurrences_drawn,
                    solution_accumulator, concrete_tile_combinations,
                    combinations_by_tile_value, scrabble_pc, scrabble_result,
                    run, first_output, first_result >>
    /\ UNCHANGED << base_cases, letters_added >>
    /\ UNCHANGED << cardVars, tableVars >>

\* A slip: the recursive call starts at the first class again instead of the
\* class the loop stands at.
AbstractDrawFromStart ==
    /\ InAbstract("loop")
    /\ Top.iter <= NumClasses
    /\ number_of_abstract_tiles_drawn[Top.iter] < tiles_by_value[Top.iter].number_of_tiles
    /\ number_of_abstract_tiles_drawn' =
           [ number_of_abstract_tiles_drawn EXCEPT ![Top.iter] = @ + 1 ]
    /\ stack' = Append(SetTop([ Top EXCEPT !.pc = "called" ]),
                       Frame("draw_abstract", 0, 1,
                             Top.tiles_drawn_so_far + 1,
                             number_of_abstract_tiles_drawn', occurrences_drawn))
    /\ UNCHANGED << hand_size, target_score, output, occurrences_drawn,
                    solution_accumulator, concrete_tile_combinations,
                    combinations_by_tile_value, scrabble_pc, scrabble_result,
                    run, first_output, first_result >>
    /\ UNCHANGED << base_cases, letters_added >>
    /\ UNCHANGED << cardVars, tableVars >>

\* The loop peeks a class that has tiles left: one is drawn and draw_abstract
\* is called with the clone.
AbstractDraw ==
    /\ InAbstract("loop")
    /\ Top.iter <= NumClasses
    /\ number_of_abstract_tiles_drawn[Top.iter] < tiles_by_value[Top.iter].number_of_tiles
    /\ number_of_abstract_tiles_drawn' =
           [ number_of_abstract_tiles_drawn EXCEPT ![Top.iter] = @ + 1 ]
    /\ stack' = Append(SetTop([ Top EXCEPT !.pc = "called" ]),
                       Frame("draw_abstract", 0, Top.iter_clone,
                             Top.tiles_drawn_so_far + 1,
                             number_of_abstract_tiles_drawn', occurrences_drawn))
    /\ UNCHANGED << hand_size, target_score, output, occurrences_drawn,
                    solution_accumulator, concrete_tile_combinations,
                    combinations_by_tile_value, scrabble_pc, scrabble_result,
                    run, first_output, first_result >>
    /\ UNCHANGED << base_cases, letters_added >>
    /\ UNCHANGED << cardVars, tableVars >>

\* A slip: the tile is not put back after the call.
AbstractPutBackKept ==
    /\ InAbstract("called")
    /\ UNCHANGED number_of_abstract_tiles_drawn
    /\ stack' = SetTop([ Top EXCEPT !.pc = "loop", !.iter = @ + 1,
                                    !.iter_clone = Top.iter + 1 ])
    /\ UNCHANGED << hand_size, target_score, output, occurrences_drawn,
                    solution_accumulator, concrete_tile_combinations,
                    combinations_by_tile_value, scrabble_pc, scrabble_result,
                    run, first_output, first_result >>
    /\ UNCHANGED << base_cases, letters_added >>
    /\ UNCHANGED << cardVars, tableVars >>

\* The call has returned: the tile is put back, the iterator advances and is
\* cloned again.
AbstractPutBack ==
    /\ InAbstract("called")
    /\ number_of_abstract_tiles_drawn' =
           [ number_of_abstract_tiles_drawn EXCEPT ![Top.iter] = @ - 1 ]
    /\ stack' = SetTop([ Top EXCEPT !.pc = "loop", !.iter = @ + 1,
                                    !.iter_clone = Top.iter + 1 ])
    /\ UNCHANGED << hand_size, target_score, output, occurrences_drawn,
                    solution_accumulator, concrete_tile_combinations,
                    combinations_by_tile_value, scrabble_pc, scrabble_result,
                    run, first_output, first_result >>
    /\ UNCHANGED << base_cases, letters_added >>
    /\ UNCHANGED << cardVars, tableVars >>

\* The loop peeks a class with no tile left: the iterator advances.
AbstractSkip ==
    /\ InAbstract("loop")
    /\ Top.iter <= NumClasses
    /\ ~ (number_of_abstract_tiles_drawn[Top.iter]
            < tiles_by_value[Top.iter].number_of_tiles)
    /\ stack' = SetTop([ Top EXCEPT !.iter = @ + 1, !.iter_clone = Top.iter + 1 ])
    /\ UNCHANGED << hand_size, target_score, output, number_of_abstract_tiles_drawn,
                    occurrences_drawn, solution_accumulator,
                    concrete_tile_combinations, combinations_by_tile_value,
                    scrabble_pc, scrabble_result, run, first_output, first_result >>
    /\ UNCHANGED << base_cases, letters_added >>
    /\ UNCHANGED << cardVars, tableVars >>

\* The iterator is exhausted: draw_abstract returns.
AbstractReturn ==
    /\ InAbstract("loop")
    /\ Top.iter > NumClasses
    /\ stack' = Pop
    /\ UNCHANGED << hand_size, target_score, output, number_of_abstract_tiles_drawn,
                    occurrences_drawn, solution_accumulator,
                    concrete_tile_combinations, combinations_by_tile_value,
                    scrabble_pc, scrabble_result, run, first_output, first_result >>
    /\ UNCHANGED << base_cases, letters_added >>
    /\ UNCHANGED << cardVars, tableVars >>

\* The tiles of the class draw_concrete works on, and the one its iterator peeks.
Live == tiles_by_value[Top.tfv].live_counted_tiles
Peeked == Live[Top.iter]

\* iter::repeat(letter).take(n)
Repeat(letter, n) == [ i \in 1..n |-> letter ]

\* The closure draw_concrete hands to add_solution: the letters of the class
\* in catalog order, each repeated occurrences_drawn times.
solution_fn(c) ==
    LET live == tiles_by_value[c].live_counted_tiles
    IN  Flatten([ j \in 1..Len(live) |->
                    Repeat(STANDARD_ENGLISH_SCRABBLE_TILES[live[j]].letter,
                           occurrences_drawn[live[j]]) ])

\* draw_concrete: as many tiles are drawn as the class has abstract tiles
\* drawn; the group of letters is added and the call returns.
ConcreteAddSolution ==
    /\ InConcrete("entry")
    /\ Top.tiles_drawn_so_far = number_of_abstract_tiles_drawn[Top.tfv]
    /\ concrete_tile_combinations' =
           add_solution(output, concrete_tile_combinations, solution_fn(Top.tfv))
    /\ stack' = Pop
    /\ UNCHANGED << hand_size, target_score, output, number_of_abstract_tiles_drawn,
                    occurrences_drawn, solution_accumulator,
                    combinations_by_tile_value, scrabble_pc, scrabble_result,
                    run, first_output, first_result >>
    /\ letters_added' = Record(letters_added, occurrences_drawn)
    /\ UNCHANGED base_cases
    /\ UNCHANGED << cardVars, tableVars >>

\* draw_concrete: more tiles are to be drawn; the iterator is cloned.
ConcreteClone ==
    /\ InConcrete("entry")
    /\ Top.tiles_drawn_so_far # number_of_abstract_tiles_drawn[Top.tfv]
    /\ stack' = SetTop([ Top EXCEPT !.pc = "loop", !.iter_clone = Top.iter ])
    /\ UNCHANGED << hand_size, target_score, output, number_of_abstract_tiles_drawn,
                    occurrences_drawn, solution_accumulator,
                    concrete_tile_combinations, combinations_by_tile_value,
                    scrabble_pc, scrabble_result, run, first_output, first_result >>
    /\ UNCHANGED << base_cases, letters_added >>
    /\ UNCHANGED << cardVars, tableVars >>

\* A slip: the recursive call starts at the first letter of the class again
\* instead of the letter the loop stands at.
ConcreteDrawFromStart ==
    /\ InConcrete("loop")
    /\ Top.iter <= Len(Live)
    /\ occurrences_drawn[Peeked] < STANDARD_ENGLISH_SCRABBLE_TILES[Peeked].occurrences
    /\ occurrences_drawn' = [ occurrences_drawn EXCEPT ![Peeked] = @ + 1 ]
    /\ stack' = Append(SetTop([ Top EXCEPT !.pc = "called" ]),
                       Frame("draw_concrete", Top.tfv, 1,
                             Top.tiles_drawn_so_far + 1,
                             number_of_abstract_tiles_drawn, occurrences_drawn'))
    /\ UNCHANGED << hand_size, target_score, output, number_of_abstract_tiles_drawn,
                    solution_accumulator, concrete_tile_combinations,
                    combinations_by_tile_value, scrabble_pc, scrabble_result,
                    run, first_output, first_result >>
    /\ UNCHANGED << base_cases, letters_added >>
    /\ UNCHANGED << cardVars, tableVars >>

\* The loop peeks a letter that has copies left: one is drawn and
\* draw_concrete is called with the clone.
ConcreteDraw ==
    /\ InConcrete("loop")
    /\ Top.iter <= Len(Live)
    /\ occurrences_drawn[Peeked] < STANDARD_ENGLISH_SCRABBLE_TILES[Peeked].occurrences
    /\ occurrences_drawn' = [ occurrences_drawn EXCEPT ![Peeked] = @ + 1 ]
    /\ stack' = Append(SetTop([ Top EXCEPT !.pc = "called" ]),
                       Frame("draw_concrete", Top.tfv, Top.iter_clone,
                             Top.tiles_drawn_so_far + 1,
                             number_of_abstract_tiles_drawn, occurrences_drawn'))
    /\ UNCHANGED << hand_size, target_score, output, number_of_abstract_tiles_drawn,
                    solution_accumulator, concrete_tile_combinations,
                    combinations_by_tile_value, scrabble_pc, scrabble_result,
                    run, first_output, first_result >>
    /\ UNCHANGED << base_cases, letters_added >>
    /\ UNCHANGED << cardVars, tableVars >>

\* A slip: the letter is not put back after the call.
ConcretePutBackKept ==
    /\ InConcrete("called")
    /\ UNCHANGED occurrences_drawn
    /\ stack' = SetTop([ Top EXCEPT !.pc = "loop", !.iter = @ + 1,
                                    !.iter_clone = Top.iter + 1 ])
    /\ UNCHANGED << hand_size, target_score, output, number_of_abstract_tiles_drawn,
                    solution_accumulator, concrete_tile_combinations,
                    combinations_by_tile_value, scrabble_pc, scrabble_result,
                    run, first_output, first_result >>
    /\ UNCHANGED << base_cases, letters_added >>
    /\ UNCHANGED << cardVars, tableVars >>

\* The call has returned: the tile is put back, the iterator advances and is
\* cloned again.
ConcretePutBack ==
    /\ InConcrete("called")
    /\ occurrences_drawn' = [ occurrences_drawn EXCEPT ![Peeked] = @ - 1 ]
    /\ stack' = SetTop([ Top EXCEPT !.pc = "loop", !.iter = @ + 1,
                                    !.iter_clone = Top.iter + 1 ])
    /\ UNCHANGED << hand_size, target_score, output, number_of_abstract_tiles_drawn,
                    solution_accumulator, concrete_tile_combinations,
                    combinations_by_tile_value, scrabble_pc, scrabble_result,
                    run, first_output, first_result >>
    /\ UNCHANGED << base_cases, letters_added >>
    /\ UNCHANGED << cardVars, tableVars >>

\* The loop peeks a letter with no copy left: the iterator advances.
ConcreteSkip ==
    /\ InConcrete("loop")
    /\ Top.iter <= Len(Live)
    /\ ~ (occurrences_drawn[Peeked]
            < STANDARD_ENGLISH_SCRABBLE_TILES[Peeked].occurrences)
    /\ stack' = SetTop([ Top EXCEPT !.iter = @ + 1, !.iter_clone = Top.iter + 1 ])
    /\ UNCHANGED << hand_size, target_score, output, number_of_abstract_tiles_drawn,
                    occurrences_drawn, solution_accumulator,
                    concrete_tile_combinations, combinations_by_tile_value,
                    scrabble_pc, scrabble_result, run, first_output, first_result >>
    /\ UNCHANGED << base_cases, letters_added >>
    /\ UNCHANGED << cardVars, tableVars >>

\* The iterator is exhausted: draw_concrete returns.
ConcreteReturn ==
    /\ InConcrete("loop")
    /\ Top.iter > Len(Live)
    /\ stack' = Pop
    /\ UNCHANGED << hand_size, target_score, output, number_of_abstract_tiles_drawn,
                    occurrences_drawn, solution_accumulator,
                    concrete_tile_combinations, combinations_by_tile_value,
                    scrabble_pc, scrabble_result, run, first_output, first_result >>
    /\ UNCHANGED << base_cases, letters_added >>
    /\ UNCHANGED << cardVars, tableVars >>

\* scrabble1 after draw_abstract has returned: finish, and the accumulator
\* is the result scrabble wraps in Output.
ScrabbleFinish ==
    /\ scrabble_pc = "search"
    /\ stack = << >>
    /\ solution_accumulator' = finish(output, solution_accumulator)
    /\ scrabble_result' = finish(output, solution_accumulator)
    /\ scrabble_pc' = "done"
    /\ UNCHANGED << hand_size, target_score, output, number_of_abstract_tiles_drawn,
                    occurrences_drawn, stack, concrete_tile_combinations,
                    combinations_by_tile_value, run, first_output, first_result >>
    /\ UNCHANGED << base_cases, letters_added >>
    /\ UNCHANGED << cardVars, tableVars >>

\* scrabble is called a second time, with the same hand size and target
\* score, in either output format.
ScrabbleAgain ==
    /\ scrabble_pc = "done"
    /\ run = 1
    /\ first_result' = scrabble_result
    /\ first_output' = output
    /\ output' \in {"Count", "List"}
    /\ run' = 2
    /\ scrabble_pc' = "start"
    /\ UNCHANGED << hand_size, target_score, number_of_abstract_tiles_drawn,
                    occurrences_drawn, stack, solution_accumulator,
                    concrete_tile_combinations, combinations_by_tile_value,
                    scrabble_result >>
    /\ UNCHANGED << base_cases, letters_added >>
    /\ UNCHANGED << cardVars, tableVars >>

ScrabbleNext ==
    \/ ScrabbleCall
    \/ AbstractDiscard
    \/ AbstractMatch
    \/ AbstractFilterOut
    \/ AbstractExpand
    \/ AbstractCollect
    \/ AbstractAddSolutions
    \/ AbstractClone
    \/ AbstractDraw
    \/ AbstractPutBack
    \/ AbstractSkip
    \/ AbstractReturn
    \/ ConcreteAddSolution
    \/ ConcreteClone
    \/ ConcreteDraw
    \/ ConcretePutBack
    \/ ConcreteSkip
    \/ ConcreteReturn
    \/ ScrabbleFinish
    \/ ScrabbleAgain

\* The state before scrabble is called with the given parameters.
ScrabbleInit(H, Ts, O) ==
    /\ hand_size \in H
    /\ target_score \in Ts
    /\ output \in O
    /\ number_of_abstract_tiles_drawn = [ k \in 1..NumClasses |-> 0 ]
    /\ occurrences_drawn = [ i \in 1..NumTiles |-> 0 ]
    /\ stack = << >>
    /\ solution_accumulator = new(output)
    /\ concrete_tile_combinations = new(output)
    /\ combinations_by_tile_value = << >>
    /\ scrabble_pc = "start"
    /\ scrabble_result = new(output)
    /\ run = 1
    /\ first_output = output
    /\ first_result = new(output)
    /\ base_cases = << >>
    /\ letters_added = << >>

(***************************************************************************)
(* card.rs.                                                                *)
(***************************************************************************)
\* The width of usize.
UsizeBits == 64

RECURSIVE Pow2(_)
Pow2(n) == IF n = 0 THEN 1 ELSE 2 * Pow2(n - 1)

\* 1usize.checked_shl(n): the shifted value, or -1 for None.
checked_shl_1(n) == IF n < UsizeBits THEN Pow2(n) ELSE -1

\* NumberOfCards::try_from.
TryFrom ==
    /\ card_pc = "parse"
    /\ IF checked_shl_1(number_of_cards) # -1
       THEN /\ number_of_card_states' = checked_shl_1(number_of_cards)
            /\ card_pc' = "call"
       ELSE /\ card_pc' = "rejected"
            /\ UNCHANGED number_of_card_states
    /\ UNCHANGED << number_of_cards, solution, solution_len, m, card_state,
                    solution_iter, check_result >>
    /\ UNCHANGED << scrabbleVars, tableVars >>

\* card, up to its loop: the slice of capacity zeroes.
CardAllocate ==
    /\ card_pc = "call"
    /\ solution' = [ i \in 1..(number_of_card_states - 1) |-> 0 ]
    /\ solution_len' = 0
    /\ m' = 1
    /\ card_pc' = "loop"
    /\ UNCHANGED << number_of_cards, number_of_card_states, card_state,
                    solution_iter, check_result >>
    /\ UNCHANGED << scrabbleVars, tableVars >>

\* A slip: the copied range starts one entry late (head[1..=len]).
LoopBodyShifted(s, len, k) ==
    LET written == IF len + 1 <= Len(s) THEN [ s EXCEPT ![len + 1] = k ] ELSE s
        tail_len == Len(s) - (len + 1)
    IN  IF len + 1 > Len(s) \/ len > tail_len
        THEN [ panicked |-> TRUE, solution |-> written, solution_len |-> len ]
        ELSE [ panicked |-> FALSE,
               solution |-> [ i \in 1..Len(s) |->
                                IF i > len + 1 /\ i <= len + 1 + len
                                THEN written[i - (len + 1) + 1]
                                ELSE written[i] ],
               solution_len |-> len + 1 + len ]

\* A slip: solution_len is not advanced past the copied entries.
LoopBodyNoAdvance(s, len, k) ==
    LET written == IF len + 1 <= Len(s) THEN [ s EXCEPT ![len + 1] = k ] ELSE s
        tail_len == Len(s) - (len + 1)
    IN  IF len + 1 > Len(s) \/ len > tail_len
        THEN [ panicked |-> TRUE, solution |-> written, solution_len |-> len ]
        ELSE [ panicked |-> FALSE,
               solution |-> [ i \in 1..Len(s) |->
                                IF i > len + 1 /\ i <= len + 1 + len
                                THEN written[i - (len + 1)]
                                ELSE written[i] ],
               solution_len |-> len + 1 ]

\* One turn of the loop on a slice s filled up to len: the flip of card k is
\* written, then the first partial_solution_len entries are copied behind it.
\* An index or a range outside the slice panics.
LoopBody(s, len, k) ==
    LET partial_solution_len == len
        written == IF len + 1 <= Len(s) THEN [ s EXCEPT ![len + 1] = k ] ELSE s
        tail_len == Len(s) - (len + 1)
    IN  IF len + 1 > Len(s) \/ partial_solution_len > tail_len
        THEN [ panicked |-> TRUE, solution |-> written, solution_len |-> len ]
        ELSE [ panicked |-> FALSE,
               solution |-> [ i \in 1..Len(s) |->
                                IF i > len + 1 /\ i <= len + 1 + partial_solution_len
                                THEN written[i - (len + 1)]
                                ELSE written[i] ],
               solution_len |-> len + 1 + partial_solution_len ]

CardLoop ==
    /\ card_pc = "loop"
    /\ m <= number_of_cards
    /\ LET r == LoopBody(solution, solution_len, m)
       IN  /\ solution' = r.solution
           /\ solution_len' = r.solution_len
           /\ card_pc' = IF r.panicked THEN "panicked" ELSE "loop"
    /\ m' = m + 1
    /\ UNCHANGED << number_of_cards, number_of_card_states, card_state,
                    solution_iter, check_result >>
    /\ UNCHANGED << scrabbleVars, tableVars >>

\* The loop is over: the assertion, and the return of the slice.
CardReturn ==
    /\ card_pc = "loop"
    /\ m > number_of_cards
    /\ card_pc' = IF Len(solution) = solution_len THEN "returned" ELSE "panicked"
    /\ UNCHANGED << number_of_cards, number_of_card_states, solution,
                    solution_len, m, card_state, solution_iter, check_result >>
    /\ UNCHANGED << scrabbleVars, tableVars >>

\* x with bit b flipped (x ^ (1 << b)).
FlipBit(x, b) ==
    IF (x \div Pow2(b)) % 2 = 1 THEN x - Pow2(b) ELSE x + Pow2(b)

\* tests::verify calls check_state on one of the starting states.
CheckStart ==
    /\ card_pc = "returned"
    /\ card_state' \in 0..(Pow2(number_of_cards) - 1)
    /\ solution_iter' = 0
    /\ card_pc' = "check"
    /\ UNCHANGED << number_of_cards, number_of_card_states, solution,
                    solution_len, m, check_result >>
    /\ UNCHANGED << scrabbleVars, tableVars >>

\* check_state: one turn of its loop.  (card_number - 1 on card number 0
\* overflows: the check fails.)
CheckStep ==
    /\ card_pc = "check"
    /\ IF card_state = 0
       THEN /\ check_result' = TRUE
            /\ card_pc' = "checked"
            /\ UNCHANGED << card_state, solution_iter >>
       ELSE IF solution_iter < Len(solution) /\ solution[solution_iter + 1] >= 1
       THEN /\ card_state' = FlipBit(card_state, solution[solution_iter + 1] - 1)
            /\ solution_iter' = solution_iter + 1
            /\ UNCHANGED << check_result, card_pc >>
       ELSE /\ check_result' = FALSE
            /\ card_pc' = "checked"
            /\ UNCHANGED << card_state, solution_iter >>
    /\ UNCHANGED << number_of_cards, number_of_card_states, solution,
                    solution_len, m >>
    /\ UNCHANGED << scrabbleVars, tableVars >>

CardNext ==
    \/ TryFrom
    \/ CardAllocate
    \/ CardLoop
    \/ CardReturn
    \/ CheckStart
    \/ CheckStep

CardInit(N) ==
    /\ number_of_cards \in N
    /\ number_of_card_states = 0
    /\ solution = << >>
    /\ solution_len = 0
    /\ m = 0
    /\ card_pc = "parse"
    /\ card_state = 0
    /\ solution_iter = 0
    /\ check_result = TRUE

(***************************************************************************)
(* spinning_table.rs.                                                      *)
(***************************************************************************)
\* slice::rotate_right(1): the last entry comes first.
rotate_right_1(s) ==
    IF s = << >> THEN s ELSE << s[Len(s)] >> \o SubSeq(s, 1, Len(s) - 1)

number_of_correctly_seated_investors(s) ==
    Cardinality({ i \in 1..Len(s) : s[i] = i })

\* is_valid_solution with k turns of its loop left: whether the arrangement
\* is valid, and the seats as the function leaves them.
RECURSIVE ValidFrom(_, _)
ValidFrom(s, k) ==
    IF k = 0 THEN [ valid |-> TRUE, seats |-> s ]
    ELSE IF number_of_correctly_seated_investors(s) >= 2
    THEN [ valid |-> FALSE, seats |-> s ]
    ELSE ValidFrom(rotate_right_1(s), k - 1)

\* A slip: two correctly seated investors are let through (> 2 for >= 2).
RECURSIVE ValidFromLenient(_, _)
ValidFromLenient(s, k) ==
    IF k = 0 THEN [ valid |-> TRUE, seats |-> s ]
    ELSE IF number_of_correctly_seated_investors(s) > 2
    THEN [ valid |-> FALSE, seats |-> s ]
    ELSE ValidFromLenient(rotate_right_1(s), k - 1)

is_valid_solution_lenient(s) == ValidFromLenient(s, Len(s))

\* A slip: the last turn of the loop does not rotate, so that a valid
\* arrangement is left one rotation short of where it started.
RECURSIVE ValidFromUnrestored(_, _)
ValidFromUnrestored(s, k) ==
    IF k = 0 THEN [ valid |-> TRUE, seats |-> s ]
    ELSE IF number_of_correctly_seated_investors(s) >= 2
    THEN [ valid |-> FALSE, seats |-> s ]
    ELSE IF k = 1 THEN [ valid |-> TRUE, seats |-> s ]
    ELSE ValidFromUnrestored(rotate_right_1(s), k - 1)

is_valid_solution_unrestored(s) == ValidFromUnrestored(s, Len(s))

is_valid_solution(s) == ValidFrom(s, Len(s))

\* The arrangements the closure pushes after a valid one s when the
\* redundant solutions are asked for: k more rotations of s.
RECURSIVE Rotations(_, _)
Rotations(s, k) ==
    IF k = 0 THEN << >>
    ELSE << rotate_right_1(s) >> \o Rotations(rotate_right_1(s), k - 1)

\* spinning_table, up to the first call of the closure: the vectors, and
\* heap_recursive on investors 2..n, which first visits them as they are.
TableCall ==
    /\ table_pc = "call"
    /\ solutions' = << >>
    /\ seats_after_first' = [ i \in 1..(number_of_seats - 1) |-> i + 1 ]
    /\ seats' = [ i \in 1..number_of_seats |-> 0 ]
    /\ heap_c' = [ i \in 1..(number_of_seats - 1) |-> 0 ]
    /\ table_pc' = "visit"
    /\ UNCHANGED << number_of_seats, include_redundant_solutions >>
    /\ UNCHANGED << scrabbleVars, cardVars >>

\* The closure heap_recursive calls on each permutation.
Closure ==
    /\ table_pc = "visit"
    /\ LET initial == << 1 >> \o seats_after_first
           checked == is_valid_solution(initial)
           more    == IF include_redundant_solutions
                      THEN Rotations(checked.seats, Len(checked.seats) - 1)
                      ELSE << >>
       IN  IF checked.valid
           THEN /\ solutions' = (solutions \o << checked.seats >>) \o more
                /\ seats' = IF more = << >> THEN checked.seats ELSE more[Len(more)]
           ELSE /\ seats' = checked.seats
                /\ UNCHANGED solutions
    /\ table_pc' = "advance"
    /\ UNCHANGED << number_of_seats, include_redundant_solutions,
                    seats_after_first, heap_c >>
    /\ UNCHANGED << scrabbleVars, cardVars >>

\* permutohedron::heap_recursive between two visits (Heap's algorithm): the
\* levels whose loops are not over.  Level p permutes the first p entries and
\* has made heap_c[p] of its p - 1 swaps.
HeapOpen == { p \in 2..Len(seats_after_first) : heap_c[p] < p - 1 }

Swap(s, i, j) == [ s EXCEPT ![i] = s[j], ![j] = s[i] ]

\* The lowest open level swaps its last entry with the first one (a level of
\* odd length) or with the one its counter names (even length); the loops
\* of the levels below start again.
HeapSwap ==
    /\ table_pc = "advance"
    /\ HeapOpen # {}
    /\ LET p == CHOOSE q \in HeapOpen : \A r \in HeapOpen : q <= r
           j == IF p % 2 = 0 THEN heap_c[p] + 1 ELSE 1
       IN  /\ seats_after_first' = Swap(seats_after_first, j, p)
           /\ heap_c' = [ q \in 1..Len(heap_c) |->
                            IF q < p THEN 0
                            ELSE IF q = p THEN heap_c[q] + 1 ELSE heap_c[q] ]
    /\ table_pc' = "visit"
    /\ UNCHANGED << number_of_seats, include_redundant_solutions, seats, solutions >>
    /\ UNCHANGED << scrabbleVars, cardVars >>

\* Every loop of heap_recursive is over: spinning_table returns solutions.
TableReturn ==
    /\ table_pc = "advance"
    /\ HeapOpen = {}
    /\ table_pc' = "returned"
    /\ UNCHANGED << number_of_seats, include_redundant_solutions,
                    seats_after_first, seats, solutions, heap_c >>
    /\ UNCHANGED << scrabbleVars, cardVars >>

TableNext ==
    \/ TableCall
    \/ Closure
    \/ HeapSwap
    \/ TableReturn

TableInit(N) ==
    /\ number_of_seats \in N
    /\ include_redundant_solutions \in BOOLEAN
    /\ seats_after_first = << >>
    /\ seats = << >>
    /\ solutions = << >>
    /\ heap_c = << >>
    /\ table_pc = "call"

(***************************************************************************)
(* main.rs runs one puzzle; the variables of the other two stay as they    *)
(* are.                                                                    *)
(***************************************************************************)
ScrabbleIdle == ScrabbleInit({0}, {0}, {"Count"})
CardIdle == CardInit({0})
TableIdle == TableInit({1}) /\ ~ include_redundant_solutions

Init ==
    /\ ScrabbleInit(0..MaxHand, 0..MaxScore, {"Count", "List"})
    /\ CardIdle /\ TableIdle

Next == ScrabbleNext

Spec == Init /\ [][Next]_vars

InitCard ==
    /\ CardInit(0..MaxCards \cup {UsizeBits})
    /\ ScrabbleIdle /\ TableIdle

NextCard == CardNext

SpecCard == InitCard /\ [][NextCard]_vars

InitTable ==
    /\ TableInit(1..MaxSeats)
    /\ ScrabbleIdle /\ CardIdle

NextTable == TableNext

SpecTable == InitTable /\ [][NextTable]_vars

\* The puzzle as stated (the defaults of Parameters, the parameters of the
\* tests solution_count and solution_list).
DefaultHandSize == 7
DefaultTargetScore == 46

InitStd ==
    /\ ScrabbleInit({DefaultHandSize}, {DefaultTargetScore}, {"Count", "List"})
    /\ CardIdle /\ TableIdle

SpecStd == InitStd /\ [][Next]_vars

(***************************************************************************)
(* main.rs / scrabble.rs: what Display writes for an Output, as the        *)
(* sequence of the code points written ('0' = 48, '\n' = 10).              *)
(***************************************************************************)
\* The decimal digits of a u64, as {} writes them.
RECURSIVE Decimal(_)
Decimal(n) ==
    IF n < 10 THEN << 48 + n >> ELSE Decimal(n \div 10) \o << 48 + (n % 10) >>

Display(S, out) ==
    IF S = "Count" THEN Decimal(out)
    ELSE IF out = << >> THEN << >>
    ELSE Head(out) \o Flatten([ i \in 1..(Len(out) - 1) |-> << 10 >> \o out[i + 1] ])

(***************************************************************************)
(* The hands of the puzzle, stated on the catalog alone: a hand is a       *)
(* multiset of tiles, written as the ascending sequence of the catalog     *)
(* indexes of its tiles.                                                   *)
(***************************************************************************)
Min(a, b) == IF a <= b THEN a ELSE b

\* The hands of h tiles and score t made of the catalog's tiles i, i+1, ...,
\* no tile taken more often than it occurs.
RECURSIVE HandsFrom(_, _, _)
HandsFrom(i, h, t) ==
    IF h = 0 THEN (IF t = 0 THEN { << >> } ELSE {})
    ELSE IF i > NumTiles THEN {}
    ELSE LET tile == STANDARD_ENGLISH_SCRABBLE_TILES[i]
         IN  UNION { { [ k \in 1..c |-> i ] \o r :
                         r \in HandsFrom(i + 1, h - c, t - c * tile.value) } :
                     c \in { d \in 0..Min(tile.occurrences, h) : d * tile.value <= t } }

Hands(h, t) == HandsFrom(1, h, t)

\* The catalog index of the tile that carries a letter.
TileOfLetter(l) ==
    CHOOSE i \in 1..NumTiles : STANDARD_ENGLISH_SCRABBLE_TILES[i].letter = l

\* The hand a string spells: its tiles, in ascending order of catalog index.
HandOf(s) ==
    Flatten([ i \in 1..NumTiles |->
                SelectSeq([ k \in 1..Len(s) |-> TileOfLetter(s[k]) ],
                          LAMBDA x : x = i) ])

Finished == scrabble_pc = "done"

(***************************************************************************)
(* The claims about scrabble.                                              *)
(***************************************************************************)

\* C1: for the standard catalog, hand size 7 and target score 46, scrabble
\* in count mode returns exactly 138.
C1_StandardCount ==
    (Finished /\ output = "Count"
        /\ hand_size = DefaultHandSize /\ target_score = DefaultTargetScore)
    => scrabble_result = 138

C1_Witness ==
    /\ Finished /\ output = "Count"
    /\ hand_size = DefaultHandSize /\ target_score = DefaultTargetScore
    /\ scrabble_result = 138

\* C2: for every hand size and target score, the count scrabble returns in
\* count mode is the number of strings it returns in list mode: of two calls
\* with the same hand size and target score, one in each mode, the count of
\* the one is the length of the list of the other.
C2_CountIsListLength ==
    (Finished /\ run = 2 /\ first_output # output)
    => IF output = "List" THEN first_result = Len(scrabble_result)
                          ELSE scrabble_result = Len(first_result)

\* C3: the list scrabble returns in list mode is exactly the set of hands:
\* every string has hand_size letters and spells a hand of the target score,
\* and every such hand is spelt by exactly one string of the list.
C3_ListIsTheHands ==
    (Finished /\ output = "List")
    => LET spelt == { HandOf(scrabble_result[i]) : i \in 1..Len(scrabble_result) }
       IN  /\ \A i \in 1..Len(scrabble_result) :
                Len(scrabble_result[i]) = hand_size
           /\ spelt = Hands(hand_size, target_score)
           /\ Cardinality(spelt) = Len(scrabble_result)

\* C4: the list scrabble returns in list mode is in strictly ascending
\* lexicographic order (sorted, and no string twice).
C4_ListStrictlyAscending ==
    (Finished /\ output = "List")
    => \A i \in 1..(Len(scrabble_result) - 1) :
           StrLess(scrabble_result[i], scrabble_result[i + 1])

C4_Witness ==
    /\ Finished /\ output = "List"
    /\ Len(scrabble_result) >= 3
    /\ hand_size >= 2

\* C5: with hand size 0, scrabble in count mode returns 1 when the target
\* score is 0 and 0 for every other target score.
C5_EmptyHandCount ==
    (Finished /\ output = "Count" /\ hand_size = 0)
    => scrabble_result = (IF target_score = 0 THEN 1 ELSE 0)

C5_Witness ==
    /\ Finished /\ output = "Count" /\ hand_size = 0
    /\ target_score = 0 /\ scrabble_result = 1

\* C6: when no hand of the requested size has the target score, the search
\* completes normally (until scrabble has returned, some step of it can be
\* taken), count mode reports 0 and list mode writes no hand string.
C6_NoMatchingHands ==
    /\ ~ Finished =>
          \/ scrabble_pc = "search" /\ stack = << >>
          \/ InAbstract("expand") /\ Top.tfv > NumClasses
          \/ ENABLED (\/ ScrabbleCall \/ AbstractDiscard \/ AbstractMatch
                      \/ AbstractFilterOut \/ AbstractExpand \/ AbstractCollect
                      \/ AbstractClone \/ AbstractDraw \/ AbstractPutBack
                      \/ AbstractSkip \/ AbstractReturn \/ ConcreteAddSolution
                      \/ ConcreteClone \/ ConcreteDraw \/ ConcretePutBack
                      \/ ConcreteSkip \/ ConcreteReturn)
    /\ (Finished /\ Hands(hand_size, target_score) = {})
       => /\ scrabble_result = new(output)
          /\ Display(output, scrabble_result)
                 = (IF output = "Count" THEN << 48 >> ELSE << >>)

C6_Witness ==
    /\ Finished /\ output = "List"
    /\ hand_size = 2 /\ target_score > 20
    /\ Hands(hand_size, target_score) = {}
    /\ Display(output, scrabble_result) = << >>

\* C7: a second call of scrabble with the same hand size, target score and
\* output mode returns what the first call returned.
C7_SameParametersSameResult ==
    (Finished /\ run = 2 /\ first_output = output)
    => scrabble_result = first_result

C7_Witness ==
    /\ Finished /\ run = 2 /\ first_output = output
    /\ output = "List" /\ Len(scrabble_result) >= 2
    /\ scrabble_result = first_result

(***************************************************************************)
(* The claims about card.                                                  *)
(***************************************************************************)

\* C8: for every accepted number of cards and every starting state of the
\* cards, the flips of the returned sequence, applied in order, reach the
\* all-face-down state after some prefix: check_state never answers false.
C8_EveryStateReachesFaceDown ==
    card_pc = "checked" => check_result = TRUE

C8_Witness ==
    /\ card_pc = "checked" /\ check_result = TRUE
    /\ number_of_cards >= 3
    /\ solution_iter = Len(solution)

\* solution(0) = {}, solution(n) = solution(n - 1) || {n} || solution(n - 1).
RECURSIVE RecursiveSolution(_)
RecursiveSolution(n) ==
    IF n = 0 THEN << >>
    ELSE RecursiveSolution(n - 1) \o << n >> \o RecursiveSolution(n - 1)

\* C9: for every accepted number of cards n, card returns solution(n), which
\* has 2^n - 1 entries, each a card number in 1..n; no index is out of range
\* and the final assertion never fails.
C9_RecursiveSolution ==
    /\ card_pc # "panicked"
    /\ card_pc \in {"returned", "check", "checked"}
       => /\ solution = RecursiveSolution(number_of_cards)
          /\ Len(solution) = Pow2(number_of_cards) - 1
          /\ \A i \in 1..Len(solution) : solution[i] \in 1..number_of_cards

C9_Witness ==
    /\ card_pc = "returned"
    /\ number_of_cards >= 3
    /\ solution = RecursiveSolution(number_of_cards)

(***************************************************************************)
(* The claims about spinning_table.                                        *)
(***************************************************************************)

\* C10: for every even number of seats, spinning_table returns no
\* arrangement, with or without the redundant solutions.
C10_EvenSeatsNoArrangement ==
    (table_pc = "returned" /\ number_of_seats % 2 = 0) => solutions = << >>

C10_Witness ==
    /\ table_pc = "returned"
    /\ number_of_seats % 2 = 0 /\ number_of_seats >= 4
    /\ include_redundant_solutions
    /\ solutions = << >>

\* The arrangements of the investors of a set S on Cardinality(S) seats.
RECURSIVE Arrangements(_)
Arrangements(S) ==
    IF S = {} THEN { << >> }
    ELSE UNION { { << x >> \o r : r \in Arrangements(S \ {x}) } : x \in S }

\* The investors in their correct seat once the table has turned by r seats:
\* the investor of seat i sits at seat i + r, counted around the table.
CorrectlySeatedAfter(s, r) ==
    Cardinality({ i \in 1..Len(s) : s[i] = ((i - 1 + r) % Len(s)) + 1 })

\* The problem statement: investor 1 sits in seat 1 and no rotation puts two
\* or more investors in their correct seat.
Wanted(n) ==
    { s \in Arrangements(1..n) :
        /\ s[1] = 1
        /\ \A r \in 0..(n - 1) : CorrectlySeatedAfter(s, r) < 2 }

\* C11: without the redundant solutions, spinning_table returns exactly the
\* arrangements of investors 1..n that seat investor 1 in seat 1 and that no
\* rotation turns into one with two or more correctly seated investors, each
\* exactly once; is_valid_solution, when it answers true, leaves the seats
\* as they were given, so that the arrangement pushed is the unrotated one.
C11_ExactlyTheValidArrangements ==
    /\ (table_pc = "returned" /\ ~ include_redundant_solutions)
       => /\ { solutions[i] : i \in 1..Len(solutions) } = Wanted(number_of_seats)
          /\ Cardinality({ solutions[i] : i \in 1..Len(solutions) }) = Len(solutions)
    /\ table_pc = "visit"
       => LET initial == << 1 >> \o seats_after_first
          IN  is_valid_solution(initial).valid
                 => is_valid_solution(initial).seats = initial
    /\ (table_pc = "advance" /\ ~ include_redundant_solutions
           /\ is_valid_solution(<< 1 >> \o seats_after_first).valid)
       => /\ seats = << 1 >> \o seats_after_first
          /\ solutions # << >>
          /\ solutions[Len(solutions)] = << 1 >> \o seats_after_first

C11_Witness ==
    /\ table_pc = "returned" /\ ~ include_redundant_solutions
    /\ number_of_seats = 7
    /\ Len(solutions) = 19
    /\ { solutions[i] : i \in 1..Len(solutions) } = Wanted(number_of_seats)

(***************************************************************************)
(* The claims about the search of scrabble.                                *)
(***************************************************************************)

\* C12: at every point of the search every weight-class counter lies between
\* 0 and the number of tiles of its class, and every per-letter counter
\* between 0 and the occurrences of its letter: no draw passes the capacity
\* and no put-back takes a counter below 0.
C12_CountersWithinCapacity ==
    /\ \A k \in 1..NumClasses :
           /\ 0 <= number_of_abstract_tiles_drawn[k]
           /\ number_of_abstract_tiles_drawn[k] <= tiles_by_value[k].number_of_tiles
    /\ \A i \in 1..NumTiles :
           /\ 0 <= occurrences_drawn[i]
           /\ occurrences_drawn[i] <= STANDARD_ENGLISH_SCRABBLE_TILES[i].occurrences

\* Both levels at capacity: every tile of the class is drawn, and the loop of
\* draw_concrete peeks a letter whose every copy is drawn.
C12_Witness ==
    /\ InConcrete("loop")
    /\ Top.iter <= Len(Live)
    /\ occurrences_drawn[Peeked] = STANDARD_ENGLISH_SCRABBLE_TILES[Peeked].occurrences
    /\ number_of_abstract_tiles_drawn[Top.tfv] = tiles_by_value[Top.tfv].number_of_tiles
    /\ C12_CountersWithinCapacity

\* C13: at the entry of every call of draw_abstract, the weight-class
\* counters add up to the tiles_drawn_so_far the call was given, which is the
\* depth of the recursion.
C13_DepthIsSumOfCounters ==
    InAbstract("entry")
    => /\ SumSeq(number_of_abstract_tiles_drawn) = Top.tiles_drawn_so_far
       /\ Top.tiles_drawn_so_far = Len(stack) - 1

\* A call entered after tiles have been put back: a full hand was reached
\* before, and this call is two draws deep.
C13_Witness ==
    /\ InAbstract("entry")
    /\ base_cases # << >>
    /\ Top.tiles_drawn_so_far = 2
    /\ SumSeq(number_of_abstract_tiles_drawn) = 2
    /\ number_of_abstract_tiles_drawn[2] = 1
    /\ number_of_abstract_tiles_drawn[NumClasses] = 1


\* C14: every step by which a call of draw_abstract or draw_concrete returns
\* leaves all counters at the values they had when that call was entered,
\* whether or not the branch added a solution; so all counters are 0 once
\* the first call of draw_abstract has returned, and every per-letter counter
\* of a class is 0 when the enumeration starts draw_concrete on that class.
C14_CallsRestoreCounters ==
    /\ [][ Len(stack') < Len(stack)
             => /\ number_of_abstract_tiles_drawn' = Top.entry_abstract
                /\ occurrences_drawn' = Top.entry_occurrences ]_vars
    /\ [] ( (scrabble_pc \in {"search", "done"} /\ stack = << >>)
              => /\ \A k \in 1..NumClasses : number_of_abstract_tiles_drawn[k] = 0
                 /\ \A i \in 1..NumTiles : occurrences_drawn[i] = 0 )
    /\ [] ( (InConcrete("entry") /\ stack[Len(stack) - 1].fn = "draw_abstract")
              => \A j \in 1..Len(Live) : occurrences_drawn[Live[j]] = 0 )

\* A call of draw_concrete that drew two letters and added solutions is about
\* to return, its counters as they were at its entry.
C14_Witness ==
    /\ InConcrete("loop")
    /\ Top.iter > Len(Live)
    /\ Top.tiles_drawn_so_far = 0
    /\ number_of_abstract_tiles_drawn[Top.tfv] = 2
    /\ Len(letters_added) >= 3
    /\ number_of_abstract_tiles_drawn = Top.entry_abstract
    /\ occurrences_drawn = Top.entry_occurrences


\* The ways to draw h tiles from the weight classes k, k + 1, ...: one count
\* per class, none above the tiles the class has.
RECURSIVE DrawCounts(_, _)
DrawCounts(k, h) ==
    IF k > NumClasses THEN (IF h = 0 THEN { << >> } ELSE {})
    ELSE UNION { { << c >> \o r : r \in DrawCounts(k + 1, h - c) } :
                 c \in 0..Min(tiles_by_value[k].number_of_tiles, h) }

\* C15: draw_abstract arrives at a full hand exactly once for each way of
\* drawing hand_size tiles from the weight classes within their capacities,
\* and with no other counters; and on every branch a class the iterator of a
\* call has passed keeps the count it had when that call was entered.
C15_BaseCasesAreTheAssignments ==
    /\ (scrabble_pc \in {"search", "done"} /\ stack = << >>)
       => /\ { base_cases[x] : x \in 1..Len(base_cases) } = DrawCounts(1, hand_size)
          /\ Cardinality({ base_cases[x] : x \in 1..Len(base_cases) }) = Len(base_cases)
    /\ scrabble_pc = "search"
       => \A j \in 1..Len(stack) :
              stack[j].fn = "draw_abstract"
              => /\ \A k \in 1..NumClasses :
                        k < stack[j].iter
                        => number_of_abstract_tiles_drawn[k] = stack[j].entry_abstract[k]
                 /\ (j < Len(stack) /\ stack[j + 1].fn = "draw_abstract")
                        => stack[j].iter <= stack[j + 1].iter

\* The search for two tiles is over: it came to a full hand once for each of
\* the 35 ways (36 pairs of classes, less the pair of K's: there is one K).
C15_Witness ==
    /\ scrabble_pc = "search" /\ stack = << >>
    /\ hand_size = 2
    /\ Len(base_cases) = 35
    /\ { base_cases[x] : x \in 1..Len(base_cases) } = DrawCounts(1, hand_size)


\* The ways to draw n letters from the letters j, j + 1, ... of a class
\* (live, the catalog indexes of its tiles): one count per letter, none above
\* the occurrences of the letter.
RECURSIVE LetterCounts(_, _, _)
LetterCounts(live, j, n) ==
    IF j > Len(live) THEN (IF n = 0 THEN { << >> } ELSE {})
    ELSE UNION { { << c >> \o r : r \in LetterCounts(live, j + 1, n - c) } :
                 c \in 0..Min(STANDARD_ENGLISH_SCRABBLE_TILES[live[j]].occurrences, n) }

\* How often a letter stands in a string.
Occurs(letter, str) == Cardinality({ p \in 1..Len(str) : str[p] = letter })

\* C16: when draw_concrete has returned to the enumeration for a class with N
\* tiles drawn, add_solution has been called exactly once for each multiset of
\* N letters of the class within the letters' occurrences, and for nothing
\* else; each string built has the class's letters in catalog order, each as
\* often as its occurrences_drawn, and count mode has counted the calls.
C16_ConcreteGroupsAreTheMultisets ==
    InAbstract("expanded")
    => LET live  == tiles_by_value[Top.tfv].live_counted_tiles
           N     == number_of_abstract_tiles_drawn[Top.tfv]
           added == { [ j \in 1..Len(live) |-> letters_added[x][live[j]] ] :
                      x \in 1..Len(letters_added) }
       IN  /\ added = LetterCounts(live, 1, N)
           /\ Cardinality(added) = Len(letters_added)
           /\ IF output = "Count"
              THEN concrete_tile_combinations = Len(letters_added)
              ELSE /\ Len(concrete_tile_combinations) = Len(letters_added)
                   /\ \A x \in 1..Len(letters_added) :
                        LET str == concrete_tile_combinations[x]
                        IN  /\ Len(str) = N
                            /\ \A j \in 1..Len(live) :
                                 Occurs(STANDARD_ENGLISH_SCRABBLE_TILES[live[j]].letter, str)
                                     = letters_added[x][live[j]]
                            /\ \A p \in 1..(Len(str) - 1) :
                                 TileOfLetter(str[p]) <= TileOfLetter(str[p + 1])

\* Two tiles of the class of J and X: the one group is JX, for there is one
\* J and one X.
C16_Witness ==
    /\ InAbstract("expanded")
    /\ output = "List"
    /\ number_of_abstract_tiles_drawn[Top.tfv] = 2
    /\ tiles_by_value[Top.tfv].value = 8
    /\ Len(letters_added) = 1
    /\ concrete_tile_combinations = << << 74, 88 >> >>

====
